---- MODULE Spec2Model ----
(***************************************************************************)
(* Insurance-claim backend: the per-identity sliding-window rate limiter   *)
(* (rate_limiter.py), the upload validator and the OCR analysis pipeline   *)
(* (main.py, services.py, utils.py), as state machines.                    *)
(*                                                                         *)
(* Time is in whole seconds.  Variables that are not fields of the program *)
(* are history variables and are marked "history" below.                   *)
(***************************************************************************)
EXTENDS Integers, Sequences, FiniteSets, TLC

VARIABLES
    clock,      \* the value time.time() returns now
    call_log,   \* rate_limiter.call_log: identity -> list of timestamps
    alias,      \* identity -> the worker whose local recent_calls IS the list
                \* object stored in call_log[identity] ("none": nobody's)
    block_log,  \* rate_limiter.block_log: deque(maxlen=100) of block events
    wpc,        \* worker -> position inside rate_limiter()
    wnow,       \* worker -> its local `now`
    wrecent,    \* worker -> its local `recent_calls` (when not aliased)
    nchecks,    \* history: number of admission checks started
    allowed,    \* history: identity -> every timestamp that was allowed
    denials,    \* history: the block event of every denial, in order
    last,       \* history: what the last finished admission check did
    disk,       \* the uploads/ directory: file name -> file, or NoFile
    claims,     \* the claims table: claim id -> row, or NoClaim
    validated,  \* history: the files on disk that passed the upload checks
    http,       \* history: the last request of the pipeline and its answer
    run         \* the analyze_claim call in progress: its position, its
                \* locals, and (history) what it found and did

limiterVars == <<clock, call_log, alias, block_log, wpc, wnow, wrecent,
                 nchecks, allowed, denials, last>>

pipelineVars == <<disk, claims, validated, http, run>>

vars == <<limiterVars, pipelineVars>>

----------------------------------------------------------------------------
(* Bounds of the model *)

MaxClock  == 121   \* the clock is not advanced past this second
MaxChecks == 62    \* at most this many admission checks are started
MaxRaceChecks == 32  \* the same, when the checks run concurrently

(* Program constants *)

RATE_LIMIT       == 30
WINDOW_SECONDS   == 60
BLOCK_LOG_MAXLEN == 100
HTTP_429_TOO_MANY_REQUESTS == 429
HTTP_500_INTERNAL_SERVER_ERROR == 500

(* The amounts by which the environment advances the clock between steps *)
Deltas == {59, 60, 61}

API_KEY == "secret"
ClientHosts == {"10.0.0.1"}
\* rate_key = (client_ip, api_key); require_api_key lets only API_KEY pass
Identities == {<<h, API_KEY>> : h \in ClientHosts}

Workers == {"w1", "w2"}

NoOutcome == [kind |-> "none"]

----------------------------------------------------------------------------
(* rate_limiter.py *)

\* recent_calls = [t for t in call_log[rate_key] if t > window_start]
PruneClosedWindow(log, now) ==
    SelectSeq(log, LAMBDA t : t >= now - WINDOW_SECONDS)
Prune(log, now) == SelectSeq(log, LAMBDA t : t > now - WINDOW_SECONDS)

\* if len(recent_calls) >= RATE_LIMIT
AtLimit(n) == n >= RATE_LIMIT

\* deque(maxlen=100).append: a full deque drops its leftmost element
DequeAppend(q, e) ==
    IF Len(q) >= BLOCK_LOG_MAXLEN THEN Append(Tail(q), e) ELSE Append(q, e)

\* `from datetime import datetime, timezone` binds `datetime` to the class
\* datetime.datetime; the denial branch evaluates `datetime.timezone`, an
\* attribute that class does not have, so building the block event raises
\* AttributeError before block_log.append is entered.
DatetimeClassAttributes == {"now", "utcnow", "isoformat", "fromtimestamp"}
BlockEventRaises == "timezone" \notin DatetimeClassAttributes

BlockEvent(id, now) ==
    [timestamp |-> now, ip |-> id[1], api_key |-> id[2],
     reason |-> "Rate limit exceeded"]

\* What the denial branch (lines 31-45) does to block_log and how it ends
DenyBlockLog(id, now) ==
    IF BlockEventRaises THEN block_log
    ELSE DequeAppend(block_log, BlockEvent(id, now))

DenyOutcome(id, now) ==
    IF BlockEventRaises
    THEN [kind |-> "denied", id |-> id, now |-> now,
          raised |-> "AttributeError",
          status |-> HTTP_500_INTERNAL_SERVER_ERROR,
          detail |-> "Internal Server Error"]
    ELSE [kind |-> "denied", id |-> id, now |-> now,
          raised |-> "HTTPException",
          status |-> HTTP_429_TOO_MANY_REQUESTS,
          detail |-> "Rate limit exceeded - try again in a bit."]

AllowOutcome(id, now) ==
    [kind |-> "allowed", id |-> id, now |-> now, raised |-> "nothing",
     status |-> 0, detail |-> ""]

AllIdle == \A w \in Workers : wpc[w] = "idle"

\* One whole admission check, run with no other check in progress
rate_limiter(id) ==
    /\ AllIdle
    /\ nchecks < MaxChecks
    /\ nchecks' = nchecks + 1
    /\ LET now    == clock
           recent == Prune(call_log[id], now)
       IN IF AtLimit(Len(recent))
          THEN /\ call_log' = [call_log EXCEPT ![id] = recent]
               /\ block_log' = DenyBlockLog(id, now)
               /\ last' = DenyOutcome(id, now)
               /\ denials' = Append(denials, BlockEvent(id, now))
               /\ UNCHANGED allowed
          ELSE /\ call_log' = [call_log EXCEPT ![id] = Append(recent, now)]
               /\ allowed' = [allowed EXCEPT ![id] = Append(@, now)]
               /\ last' = AllowOutcome(id, now)
               /\ UNCHANGED <<block_log, denials>>
    /\ alias' = [alias EXCEPT ![id] = "none"]
    /\ UNCHANGED <<clock, wpc, wnow, wrecent>>

\* An admission check on its own (the routes that use it are further down)
AdmissionCheck(id) == rate_limiter(id) /\ UNCHANGED pipelineVars

\* The environment: time passes
Tick(d) ==
    /\ clock + d <= MaxClock
    /\ clock' = clock + d
    /\ UNCHANGED <<call_log, alias, block_log, wpc, wnow, wrecent,
                   nchecks, allowed, denials, last>>
    /\ UNCHANGED pipelineVars

----------------------------------------------------------------------------
(* rate_limiter() run by concurrent workers: FastAPI runs a `def` dependency *)
(* in a thread pool and the function takes no lock, so the statements of     *)
(* two checks interleave.  One action per statement that touches call_log.   *)

TheIdentity(w) == CHOOSE id \in Identities : TRUE

\* len(recent_calls) as worker w sees it: its list object may be the one the
\* map holds, and then appends of other workers are visible through it
RecentLen(w, id) ==
    IF alias[id] = w THEN Len(call_log[id]) ELSE Len(wrecent[w])

\* line 24: now = time.time()
W_Start(w) ==
    /\ wpc[w] = "idle"
    /\ nchecks < MaxRaceChecks
    /\ nchecks' = nchecks + 1
    /\ wnow' = [wnow EXCEPT ![w] = clock]
    /\ wpc' = [wpc EXCEPT ![w] = "prune"]
    /\ UNCHANGED <<clock, call_log, alias, block_log, wrecent, allowed,
                   denials, last>>
    /\ UNCHANGED pipelineVars

\* line 28: recent_calls = [t for t in call_log[rate_key] if t > window_start]
W_Prune(w) ==
    /\ wpc[w] = "prune"
    /\ LET id == TheIdentity(w)
       IN /\ wrecent' = [wrecent EXCEPT ![w] = Prune(call_log[id], wnow[w])]
          \* w's name now refers to the new list, no longer to the map's
          /\ alias' = [alias EXCEPT ![id] = IF @ = w THEN "none" ELSE @]
    /\ wpc' = [wpc EXCEPT ![w] = "store"]
    /\ UNCHANGED <<clock, call_log, block_log, wnow, nchecks, allowed,
                   denials, last>>
    /\ UNCHANGED pipelineVars

\* line 29: call_log[rate_key] = recent_calls
W_Store(w) ==
    /\ wpc[w] = "store"
    /\ LET id == TheIdentity(w)
       IN /\ call_log' = [call_log EXCEPT ![id] = wrecent[w]]
          /\ alias' = [alias EXCEPT ![id] = w]
    /\ wpc' = [wpc EXCEPT ![w] = "check"]
    /\ UNCHANGED <<clock, block_log, wnow, wrecent, nchecks, allowed,
                   denials, last>>
    /\ UNCHANGED pipelineVars

\* lines 31-45: the limit test and the denial branch
W_Check(w) ==
    /\ wpc[w] = "check"
    /\ LET id == TheIdentity(w)
       IN IF AtLimit(RecentLen(w, id))
          THEN /\ block_log' = DenyBlockLog(id, wnow[w])
               /\ last' = DenyOutcome(id, wnow[w])
               /\ denials' = Append(denials, BlockEvent(id, wnow[w]))
               /\ wpc' = [wpc EXCEPT ![w] = "idle"]
          ELSE /\ wpc' = [wpc EXCEPT ![w] = "append"]
               /\ UNCHANGED <<block_log, denials, last>>
    /\ UNCHANGED <<clock, call_log, alias, wnow, wrecent, nchecks, allowed>>
    /\ UNCHANGED pipelineVars

\* line 48: call_log[rate_key].append(now)
W_Append(w) ==
    /\ wpc[w] = "append"
    /\ LET id == TheIdentity(w)
       IN /\ call_log' = [call_log EXCEPT ![id] = Append(@, wnow[w])]
          /\ allowed' = [allowed EXCEPT ![id] = Append(@, wnow[w])]
          /\ last' = AllowOutcome(id, wnow[w])
    /\ wpc' = [wpc EXCEPT ![w] = "idle"]
    /\ UNCHANGED <<clock, alias, block_log, wnow, wrecent, nchecks, denials>>
    /\ UNCHANGED pipelineVars

----------------------------------------------------------------------------
(* main.py, services.py, utils.py: the upload validator and the analysis *)

\* Declared file names; a file is stored as uploads/<file.filename>
Filenames == {"scan.png", "notes.txt", "form.docx", "doc.pdf"}

\* ext = os.path.splitext(file_path)[1].lower()
LowerExt(name) ==
    CASE name = "scan.png"  -> ".png"
      [] name = "notes.txt" -> ".txt"
      [] name = "form.docx" -> ".docx"
      [] name = "doc.pdf"   -> ".pdf"

ALLOWED_MIME_TYPES ==
    {"image/png", "image/jpeg", "application/pdf", "text/plain"}

FILE_SIZE_LIMITS ==
    [t \in ALLOWED_MIME_TYPES |->
        CASE t = "image/png"       -> 15 * 1024 * 1024
          [] t = "image/jpeg"      -> 15 * 1024 * 1024
          [] t = "application/pdf" -> 20 * 1024 * 1024
          [] t = "text/plain"      -> 5 * 1024 * 1024]

\* What libmagic can report for an uploaded file
SniffedTypes == ALLOWED_MIME_TYPES \cup {"application/zip"}

(* A line of text is a label with what the patterns of parse_claim_text    *)
(* capture after it: `word` is the run of word characters that follows the *)
(* label, its colon and any white space ("" when none does), `cents` the   *)
(* number that follows when it has the form ddd.dd (-1 when it has not).   *)
Line(label, word, cents) == [label |-> label, word |-> word, cents |-> cents]
Page(lines) == [ok |-> TRUE, lines |-> lines]
BadPage == [ok |-> FALSE, lines |-> <<>>]   \* the engine cannot read it

DocBoth == <<Page(<<Line("claim_type", "Travel", -1),
                    Line("amount", "", 12000)>>)>>
DocNone == <<Page(<<Line("other", "hello", -1)>>)>>
DocBad  == <<BadPage>>

\* Documents for the analysis: a PDF whose second page cannot be read, one
\* with the labels but nothing the patterns accept after them, one with the
\* claim type only, one with an amount of 0.00 only
DocLateBad == <<Page(<<Line("claim_type", "Fire", -1),
                       Line("amount", "", 5000)>>), BadPage>>
DocUnparsed == <<Page(<<Line("claim_type", "", -1)>>),
                 Page(<<Line("amount", "", -1)>>)>>
DocTypeOnly == <<Page(<<Line("other", "hello", -1),
                        Line("claim_type", "Fire", -1)>>)>>
DocAmountZero == <<Page(<<Line("amount", "", 0)>>)>>

NoFile == [exists |-> FALSE]
File(mime, size, pages) ==
    [exists |-> TRUE, mime |-> mime, size |-> size, pages |-> pages]

Ceiling(mime) == FILE_SIZE_LIMITS[mime]

\* The uploads tried: for every allowed type a file exactly at its ceiling
\* and one a byte over it, and a file of a type that is not allowed
AtCeiling ==
    {File("image/png", Ceiling("image/png"), DocBoth),
     File("application/pdf", Ceiling("application/pdf"), DocBad),
     File("text/plain", Ceiling("text/plain"), DocBoth),
     File("text/plain", Ceiling("text/plain"), DocNone)}
OverCeiling ==
    {File(m, Ceiling(m) + 1, DocNone) : m \in ALLOWED_MIME_TYPES}
NotAllowed == {File("application/zip", 1024, DocBad)}
SampleUploads == AtCeiling \cup OverCeiling \cup NotAllowed

\* os.remove(temp_file_path)
RemoveTempForgotten(d, name) == d
RemoveTemp(d, name) == [d EXCEPT ![name] = NoFile]

\* save_uploaded_file is `async def` and upload_file calls it without await:
\* the call returns a coroutine object, copies nothing and gives no path
Coroutine == "<coroutine object save_uploaded_file>"
save_uploaded_file_unawaited(name) == Coroutine

NoClaim == [exists |-> FALSE]
NoText == [set |-> FALSE, lines |-> <<>>]
Text(lines) == [set |-> TRUE, lines |-> lines]
PathOrNone == Filenames \cup {"None"}

\* services.create_claim: a row is inserted when document_path is a value
\* the String column can bind; db.commit() raises for any other object
create_claim_commits(file_path) == file_path \in PathOrNone

\* The exception the body of upload_file's try block ends with, if any
UploadRaised(file) ==
    IF file.mime \notin DOMAIN FILE_SIZE_LIMITS
    THEN [status |-> 400, error |-> "INVALID_FILE_TYPE"]
    ELSE IF file.size > FILE_SIZE_LIMITS[file.mime]
    THEN [status |-> 400, error |-> "FILE_TOO_LARGE"]
    ELSE IF ~create_claim_commits(save_uploaded_file_unawaited("any"))
    THEN [status |-> 0, error |-> "StatementError"]
    ELSE [status |-> 0, error |-> ""]

\* `except Exception as e:` turns whatever was raised inside the try block,
\* the HTTPExceptions of the two rejections included, into 500 UPLOAD_FAILED
UploadAnswer(raised) ==
    IF raised.error = ""
    THEN [status |-> 200, error |-> ""]
    ELSE [status |-> 500, error |-> "UPLOAD_FAILED"]

UploadDecision(file) ==
    IF UploadRaised(file).error \in {"INVALID_FILE_TYPE", "FILE_TOO_LARGE"}
    THEN UploadRaised(file).error
    ELSE "accepted"

\* Routes and the dependencies their decorators declare
Routes == {"upload", "analyze", "list_claims", "search_claims"}
RateLimitedRoutes == {"list_claims", "search_claims"}

NoExtract == [branch |-> "none"]

\* The dependencies of a route run before its handler: the admission check
\* when the route declares it, nothing otherwise
Dependencies(route, id) ==
    IF route \in RateLimitedRoutes
    THEN rate_limiter(id)
    ELSE UNCHANGED limiterVars

Admitted(route) == route \in RateLimitedRoutes /\ last'.kind = "allowed"
Refused(route) == route \in RateLimitedRoutes /\ last'.kind = "denied"

RefusedAnswer(route, id) ==
    [route |-> route, id |-> id, admitted |-> FALSE, ran |-> FALSE,
     status |-> last'.status, error |-> last'.raised, name |-> "None",
     decision |-> "none", wrote |-> FALSE, mime |-> "", size |-> 0,
     extract |-> NoExtract, commits |-> 0]

\* services.create_claim with a path the column can bind: a new row under
\* the next free id
create_claim(table, path) ==
    LET free == {c \in DOMAIN table : ~table[c].exists}
        new  == CHOOSE c \in free : \A d \in free : c <= d
    IN IF free = {} THEN table
       ELSE [table EXCEPT ![new] =
               [exists |-> TRUE, document_path |-> path, ocr_text |-> NoText,
                claim_type |-> "Uploaded", amount |-> 100]]

\* POST /upload/
upload_file(id, name, file) ==
    /\ Dependencies("upload", id)
    /\ UNCHANGED run
    /\ IF Refused("upload")
       THEN /\ http' = RefusedAnswer("upload", id)
            /\ UNCHANGED <<disk, claims, validated>>
       ELSE LET written  == [disk EXCEPT ![name] = file]
                decision == UploadDecision(file)
                answer   == UploadAnswer(UploadRaised(file))
            IN /\ disk' = IF decision = "accepted" THEN written
                          ELSE RemoveTemp(written, name)
               /\ validated' = IF decision = "accepted"
                               THEN validated \cup {name}
                               ELSE validated \ {name}
               /\ claims' = IF answer.status = 200
                            THEN create_claim(claims, name)
                            ELSE claims
               /\ http' = [route |-> "upload", id |-> id,
                           admitted |-> Admitted("upload"), ran |-> TRUE,
                           status |-> answer.status, error |-> answer.error,
                           name |-> name, decision |-> decision,
                           wrote |-> TRUE, mime |-> file.mime,
                           size |-> file.size, extract |-> NoExtract,
                           commits |-> 0]

\* GET /claims: behind auth_stack, reads the table
list_claims(id) ==
    /\ Dependencies("list_claims", id)
    /\ IF Refused("list_claims")
       THEN http' = RefusedAnswer("list_claims", id)
       ELSE http' = [route |-> "list_claims", id |-> id,
                     admitted |-> Admitted("list_claims"), ran |-> TRUE,
                     status |-> 200, error |-> "", name |-> "None",
                     decision |-> "none", wrote |-> FALSE, mime |-> "",
                     size |-> 0, extract |-> NoExtract, commits |-> 0]
    /\ UNCHANGED <<disk, claims, validated, run>>

\* services.extract_text_from_file: the branch is chosen by the extension
ExtractBranch(ext) ==
    IF ext \in {".png", ".jpg", ".jpeg"} THEN "image"
    ELSE IF ext = ".pdf" THEN "pdf"
    ELSE IF ext = ".txt" THEN "text"
    ELSE "unsupported"

AllPagesOk(pages) == \A i \in 1..Len(pages) : pages[i].ok

\* "\n".join(page texts): the lines of the pages, in page order
RECURSIVE JoinPages(_)
JoinPages(pages) ==
    IF pages = <<>> THEN <<>>
    ELSE pages[1].lines \o JoinPages(Tail(pages))

\* Whether the library a branch calls can read the bytes of the file:
\* PIL opens images only, poppler PDFs only, and the utf-8 decode of the
\* text branch fails on image and PDF bytes; an unreadable page fails too
EngineReads(branch, file) ==
    /\ AllPagesOk(file.pages)
    /\ CASE branch = "image" -> file.mime \in {"image/png", "image/jpeg"}
         [] branch = "pdf"   -> file.mime = "application/pdf"
         [] branch = "text"  -> file.mime = "text/plain"
         [] OTHER            -> FALSE

\* What was raised inside the try block of extract_text_from_file
ExtractRaised(name, file) ==
    LET branch == ExtractBranch(LowerExt(name))
    IN IF branch = "unsupported" THEN "HTTPException(400)"
       ELSE IF ~EngineReads(branch, file) THEN "EngineError"
       ELSE "none"

\* `except Exception as e:` wraps whatever was raised, the HTTPException of
\* the unsupported kind included, into HTTPException(500, "Failed to ...")
extract_text_skipping_pages(name, file) ==
    LET readable == SelectSeq(file.pages, LAMBDA p : p.ok)
    IN [branch |-> ExtractBranch(LowerExt(name)),
        raised |-> "none", status |-> 0, error |-> "",
        text   |-> JoinPages(readable)]
extract_text_from_file(name, file) ==
    LET raised == ExtractRaised(name, file)
    IN [branch |-> ExtractBranch(LowerExt(name)),
        raised |-> raised,
        status |-> IF raised = "none" THEN 0 ELSE 500,
        error  |-> IF raised = "none" THEN "" ELSE "Failed to extract text",
        text   |-> IF raised = "none" THEN JoinPages(file.pages) ELSE <<>>]

\* re.search: the first of the places that match, 0 when none does
FirstMatch(matching) ==
    IF matching = {} THEN 0
    ELSE CHOOSE i \in matching : \A j \in matching : i <= j

\* services.parse_claim_text
parse_claim_text(lines) ==
    LET ti == FirstMatch({i \in 1..Len(lines) :
                 lines[i].label = "claim_type" /\ lines[i].word # ""})
        ai == FirstMatch({i \in 1..Len(lines) :
                 lines[i].label = "amount" /\ lines[i].cents >= 0})
    IN [claim_type |-> IF ti = 0 THEN [found |-> FALSE, value |-> ""]
                       ELSE [found |-> TRUE, value |-> lines[ti].word],
        amount     |-> IF ai = 0 THEN [found |-> FALSE, value |-> 0]
                       ELSE [found |-> TRUE, value |-> lines[ai].cents]]

AnalyzeAnswer(id, cid, status, error, name, ex, commits) ==
    [route |-> "analyze", id |-> id, admitted |-> Admitted("analyze"),
     ran |-> TRUE, status |-> status, error |-> error, name |-> name,
     decision |-> "none", wrote |-> FALSE, mime |-> "", size |-> 0,
     extract |-> ex, commits |-> commits]

\* POST /analyze/{claim_id}
analyze_claim(id, cid) ==
    /\ Dependencies("analyze", id)
    /\ UNCHANGED <<disk, validated, run>>
    /\ IF Refused("analyze")
       THEN /\ http' = RefusedAnswer("analyze", id)
            /\ UNCHANGED claims
       ELSE IF ~claims[cid].exists
       THEN \* get_claim_or_404
            /\ http' = AnalyzeAnswer(id, cid, 404, "CLAIM_NOT_FOUND", "None",
                                     NoExtract, 0)
            /\ UNCHANGED claims
       ELSE IF \/ claims[cid].document_path = "None"
               \/ ~disk[claims[cid].document_path].exists
       THEN /\ http' = AnalyzeAnswer(id, cid, 404,
                          "Document file not found for this claim.",
                          claims[cid].document_path, NoExtract, 0)
            /\ UNCHANGED claims
       ELSE LET path   == claims[cid].document_path
                file   == disk[path]
                ex     == extract_text_from_file(path, file)
                seen   == [branch |-> ex.branch, raised |-> ex.raised,
                           status |-> ex.status, error |-> ex.error,
                           text |-> ex.text, sniffed |-> file.mime,
                           validated |-> path \in validated]
                parsed == parse_claim_text(ex.text)
                first  == [claims[cid] EXCEPT !.ocr_text = Text(ex.text)]
                second == [first EXCEPT
                             !.claim_type = IF parsed.claim_type.found
                                            THEN parsed.claim_type.value
                                            ELSE @,
                             !.amount = IF parsed.amount.found
                                        THEN parsed.amount.value ELSE @]
                found  == parsed.claim_type.found \/ parsed.amount.found
            IN IF ex.status # 0
               THEN \* `except Exception`: nothing was committed
                    /\ http' = AnalyzeAnswer(id, cid, 500,
                                  "OCR analysis failed.", path, seen, 0)
                    /\ UNCHANGED claims
               ELSE /\ claims' = [claims EXCEPT ![cid] = second]
                    /\ http' = AnalyzeAnswer(id, cid, 200, "", path, seen,
                                  IF found THEN 2 ELSE 1)

----------------------------------------------------------------------------
(* analyze_claim statement by statement.  The handler is `async def` and   *)
(* never awaits, so no other handler of the event loop runs between its    *)
(* statements; db.commit() can fail, and what was committed before stays.  *)

NoParse == [claim_type |-> [found |-> FALSE, value |-> ""],
            amount |-> [found |-> FALSE, value |-> 0]]

IdleRun ==
    [pc |-> "idle", id |-> CHOOSE i \in Identities : TRUE, cid |-> 0, path |-> "None",
     before |-> NoClaim, obj |-> NoClaim, text |-> <<>>, parsed |-> NoParse,
     parse_called |-> FALSE, commits |-> 0, updated |-> <<>>,
     repeat |-> FALSE, outcome |-> "none", seen |-> NoExtract]

\* claim.ocr_text = extracted_text
WithRawTextAppended(obj, text) ==
    [obj EXCEPT !.ocr_text = Text(@.lines \o text)]
WithRawText(obj, text) == [obj EXCEPT !.ocr_text = Text(text)]

\* The first db.commit(): the row takes the values of the session's object
FirstCommitForgotten(row, obj) == row
FirstCommit(row, obj) == obj

\* The second db.commit()
SecondCommit(row, obj) == obj

\* `if parsed.get("claim_type"):` and `if parsed.get("amount") is not None:`
ApplyParsedTruthyAmount(obj, parsed) ==
    [obj EXCEPT
       !.claim_type = IF parsed.claim_type.found /\ parsed.claim_type.value # ""
                      THEN parsed.claim_type.value ELSE @,
       !.amount = IF parsed.amount.found /\ parsed.amount.value # 0
                  THEN parsed.amount.value ELSE @]
ApplyParsed(obj, parsed) ==
    [obj EXCEPT
       !.claim_type = IF parsed.claim_type.found /\ parsed.claim_type.value # ""
                      THEN parsed.claim_type.value ELSE @,
       !.amount = IF parsed.amount.found
                  THEN parsed.amount.value ELSE @]

\* updated_fields, in the order the handler appends to it
UpdatedFields(parsed) ==
    (IF parsed.claim_type.found /\ parsed.claim_type.value # ""
     THEN <<"claim_type">> ELSE <<>>)
    \o (IF parsed.amount.found THEN <<"amount">> ELSE <<>>)

\* `if updated_fields:`
NeedsSecondCommitAlways(updated) == TRUE
NeedsSecondCommit(updated) == updated # <<>>

RunAnswer(r, status, error, commits) ==
    AnalyzeAnswer(r.id, r.cid, status, error, r.path, r.seen, commits)

\* The dependencies, get_claim_or_404 and the check that the document exists
A_Start(id, cid) ==
    /\ run.pc = "idle"
    /\ Dependencies("analyze", id)
    /\ UNCHANGED <<disk, claims, validated>>
    /\ IF Refused("analyze")
       THEN /\ http' = RefusedAnswer("analyze", id)
            /\ run' = IdleRun
       ELSE IF ~claims[cid].exists
       THEN /\ http' = AnalyzeAnswer(id, cid, 404, "CLAIM_NOT_FOUND", "None",
                                     NoExtract, 0)
            /\ run' = [IdleRun EXCEPT !.cid = cid, !.outcome = "not_found"]
       ELSE IF \/ claims[cid].document_path = "None"
               \/ ~disk[claims[cid].document_path].exists
       THEN /\ http' = AnalyzeAnswer(id, cid, 404,
                          "Document file not found for this claim.",
                          claims[cid].document_path, NoExtract, 0)
            /\ run' = [IdleRun EXCEPT !.cid = cid,
                                      !.path = claims[cid].document_path,
                                      !.outcome = "no_document"]
       ELSE /\ run' = [IdleRun EXCEPT
                         !.pc = "extract", !.id = id, !.cid = cid,
                         !.path = claims[cid].document_path,
                         !.before = claims[cid], !.obj = claims[cid],
                         !.repeat = /\ http.route = "analyze"
                                    /\ http.status = 200
                                    /\ run.cid = cid]
            /\ UNCHANGED http

\* extracted_text = extract_text_from_file(claim.document_path)
A_Extract ==
    /\ run.pc = "extract"
    /\ UNCHANGED <<limiterVars, disk, claims, validated>>
    /\ LET file == disk[run.path]
           ex   == extract_text_from_file(run.path, file)
           seen == [branch |-> ex.branch, raised |-> ex.raised,
                    status |-> ex.status, error |-> ex.error,
                    text |-> ex.text, sniffed |-> file.mime,
                    validated |-> run.path \in validated]
       IN IF ex.status # 0
          THEN \* `except Exception`: the handler ends here
               LET done == [run EXCEPT !.pc = "idle", !.seen = seen,
                                       !.outcome = "extract_failed"]
               IN /\ run' = done
                  /\ http' = RunAnswer(done, 500, "OCR analysis failed.", 0)
          ELSE /\ run' = [run EXCEPT !.pc = "parse", !.seen = seen,
                                     !.text = ex.text]
               /\ UNCHANGED http

\* parsed = parse_claim_text(extracted_text)
A_Parse ==
    /\ run.pc = "parse"
    /\ UNCHANGED <<limiterVars, disk, claims, validated, http>>
    /\ run' = [run EXCEPT !.pc = "commit1", !.parse_called = TRUE,
                          !.parsed = parse_claim_text(run.text)]

\* claim.ocr_text = extracted_text; db.commit(); db.refresh(claim)
A_Commit1(ok) ==
    /\ run.pc = "commit1"
    /\ UNCHANGED <<limiterVars, disk, validated>>
    /\ LET obj       == WithRawText(run.obj, run.text)
           committed == FirstCommit(claims[run.cid], obj)
       IN IF ok
          THEN /\ claims' = [claims EXCEPT ![run.cid] = committed]
               /\ run' = [run EXCEPT !.pc = "phase2", !.obj = committed,
                                     !.commits = 1]
               /\ UNCHANGED http
          ELSE LET done == [run EXCEPT !.pc = "idle",
                                       !.outcome = "commit1_failed"]
               IN /\ UNCHANGED claims
                  /\ run' = done
                  /\ http' = RunAnswer(done, 500, "OCR analysis failed.", 0)

\* The two `if parsed.get(...)` blocks and `if updated_fields:`
A_Phase2 ==
    /\ run.pc = "phase2"
    /\ UNCHANGED <<limiterVars, disk, claims, validated>>
    /\ LET updated == UpdatedFields(run.parsed)
           applied == [run EXCEPT !.obj = ApplyParsed(@, run.parsed),
                                  !.updated = updated]
       IN IF NeedsSecondCommit(updated)
          THEN /\ run' = [applied EXCEPT !.pc = "commit2"]
               /\ UNCHANGED http
          ELSE LET done == [applied EXCEPT !.pc = "idle", !.outcome = "ok"]
               IN /\ run' = done
                  /\ http' = RunAnswer(done, 200, "", 1)

\* db.commit(); db.refresh(claim); return
A_Commit2(ok) ==
    /\ run.pc = "commit2"
    /\ UNCHANGED <<limiterVars, disk, validated>>
    /\ IF ok
       THEN LET done == [run EXCEPT !.pc = "idle", !.outcome = "ok",
                                    !.commits = 2]
            IN /\ claims' = [claims EXCEPT
                               ![run.cid] = SecondCommit(@, run.obj)]
               /\ run' = done
               /\ http' = RunAnswer(done, 200, "", 2)
       ELSE LET done == [run EXCEPT !.pc = "idle",
                                    !.outcome = "commit2_failed"]
            IN /\ UNCHANGED claims
               /\ run' = done
               /\ http' = RunAnswer(done, 500, "OCR analysis failed.", 1)

\* The table holds one claim, created before this run; no claim has id 2
ClaimIds == {1, 2}
InitialClaim(path) ==
    [exists |-> TRUE, document_path |-> path, ocr_text |-> NoText,
     claim_type |-> "Initial", amount |-> 100]

\* The files that can be on disk at the start: any that the checks let pass
StoredFiles == {f \in SampleUploads : UploadDecision(f) = "accepted"}

----------------------------------------------------------------------------
InitLimiter ==
    /\ clock = 0
    /\ call_log = [id \in Identities |-> <<>>]
    /\ alias = [id \in Identities |-> "none"]
    /\ block_log = <<>>
    /\ wpc = [w \in Workers |-> "idle"]
    /\ wnow = [w \in Workers |-> 0]
    /\ wrecent = [w \in Workers |-> <<>>]
    /\ nchecks = 0
    /\ allowed = [id \in Identities |-> <<>>]
    /\ denials = <<>>
    /\ last = NoOutcome

\* The process starts with whatever the database and uploads/ hold: one
\* claim, with or without a document path, whose file may be on disk
Init ==
    /\ InitLimiter
    /\ \E path \in PathOrNone :
          /\ claims = [c \in ClaimIds |->
                         IF c = 1 THEN InitialClaim(path) ELSE NoClaim]
          /\ \E f \in StoredFiles \cup {NoFile} :
                disk = [n \in Filenames |-> IF n = path THEN f ELSE NoFile]
    /\ validated = {}
    /\ http = [route |-> "none"]
    /\ run = IdleRun

\* A fresh installation: empty table, empty uploads/
InitFresh ==
    /\ InitLimiter
    /\ claims = [c \in ClaimIds |-> NoClaim]
    /\ disk = [n \in Filenames |-> NoFile]
    /\ validated = {}
    /\ http = [route |-> "none"]
    /\ run = IdleRun

NextLimiter ==
    \/ \E id \in Identities : AdmissionCheck(id)
    \/ \E d \in Deltas : Tick(d)

SpecLimiter == InitFresh /\ [][NextLimiter]_vars

Next ==
    \/ \E id \in Identities, n \in Filenames, f \in SampleUploads :
          upload_file(id, n, f)
    \/ \E id \in Identities, c \in ClaimIds : analyze_claim(id, c)

Spec == Init /\ [][Next]_vars

\* The same requests next to those of a route behind the rate limiter
GateUploads == {f \in SampleUploads : f.mime \in {"text/plain", "application/zip"}}
NextGate ==
    \/ \E id \in Identities, f \in GateUploads :
          upload_file(id, "notes.txt", f)
    \/ \E id \in Identities, c \in ClaimIds : analyze_claim(id, c)
    \/ \E id \in Identities : list_claims(id)

SpecGate == Init /\ [][NextGate]_vars

\* Analyses of the one claim, statement by statement, between uploads that
\* replace its document
AnalysisFiles ==
    {File("text/plain", 1024, DocBoth),
     File("text/plain", 1024, DocNone),
     File("text/plain", 1024, DocTypeOnly),
     File("text/plain", 1024, DocAmountZero),
     File("application/pdf", 2048, DocLateBad),
     File("application/pdf", 2048, DocUnparsed)}

InitAnalyze ==
    /\ InitLimiter
    /\ \E path \in PathOrNone :
          /\ claims = [c \in ClaimIds |->
                         IF c = 1 THEN InitialClaim(path) ELSE NoClaim]
          /\ \E f \in AnalysisFiles \cup {NoFile} :
                disk = [n \in Filenames |-> IF n = path THEN f ELSE NoFile]
    /\ validated = {}
    /\ http = [route |-> "none"]
    /\ run = IdleRun

NextAnalyze ==
    \/ \E id \in Identities, c \in ClaimIds : A_Start(id, c)
    \/ A_Extract
    \/ A_Parse
    \/ \E ok \in BOOLEAN : A_Commit1(ok)
    \/ A_Phase2
    \/ \E ok \in BOOLEAN : A_Commit2(ok)
    \/ \E id \in Identities, f \in AnalysisFiles :
          /\ run.pc = "idle"
          /\ claims[1].document_path \in Filenames
          /\ upload_file(id, claims[1].document_path, f)

SpecAnalyze == InitAnalyze /\ [][NextAnalyze]_vars

NextRace ==
    \/ \E w \in Workers : W_Start(w)
    \/ \E w \in Workers : W_Prune(w)
    \/ \E w \in Workers : W_Store(w)
    \/ \E w \in Workers : W_Check(w)
    \/ \E w \in Workers : W_Append(w)

SpecRace == InitFresh /\ [][NextRace]_vars

----------------------------------------------------------------------------
(* Properties of the rate limiter *)

Range(seq) == {seq[i] : i \in 1..Len(seq)}

\* how many elements of seq lie in the interval (lo, hi]
CountHalfOpen(seq, lo, hi) == Len(SelectSeq(seq, LAMBDA t : lo < t /\ t <= hi))
\* how many elements of seq lie in the interval [lo, hi]
CountClosed(seq, lo, hi) == Len(SelectSeq(seq, LAMBDA t : lo <= t /\ t <= hi))

Front(seq) == SubSeq(seq, 1, Len(seq) - 1)

\* the timestamps allowed for the identity of the last check before that check
PriorAllowed ==
    IF last.kind = "allowed" THEN Front(allowed[last.id]) ELSE allowed[last.id]

\* In every interval (T-60, T] the identity has at most 30 allowed calls; an
\* interval ending at an allowed timestamp contains every interval that ends
\* between that timestamp and the next, so those T are enough.
WindowBound ==
    \A id \in Identities : \A T \in Range(allowed[id]) \cup {clock} :
        CountHalfOpen(allowed[id], T - WINDOW_SECONDS, T) <= RATE_LIMIT

\* C1 (as stated): a sequential admission check is denied exactly when the
\* identity has 30 allowed timestamps that are not more than 60 seconds old
\* (so a call is allowed again only once the oldest of them is more than 60
\* seconds old), and no trailing 60-second interval holds more than 30
\* allowed calls.
C1_Original ==
    /\ last.kind # "none" =>
          (last.kind = "denied" <=>
             CountClosed(PriorAllowed, last.now - WINDOW_SECONDS, last.now)
                >= RATE_LIMIT)
    /\ WindowBound

\* C1 (amended): a sequential admission check is denied exactly when the
\* identity has 30 allowed timestamps less than 60 seconds old; a timestamp
\* that is exactly 60 seconds old has aged out and frees one call.  No
\* interval (T-60, T] holds more than 30 allowed calls.
C1_SlidingWindow ==
    /\ last.kind # "none" =>
          (last.kind = "denied" <=>
             CountHalfOpen(PriorAllowed, last.now - WINDOW_SECONDS, last.now)
                >= RATE_LIMIT)
    /\ WindowBound

\* 30 calls were allowed and the next denied; once the oldest timestamp aged
\* out while the others had not, one more call was allowed and the call after
\* that one denied again.
C1_Witness ==
    /\ last.kind = "denied"
    /\ last.now > WINDOW_SECONDS
    /\ Len(allowed[last.id]) = RATE_LIMIT + 1
    /\ Len(denials) = 2
    /\ allowed[last.id][1] < allowed[last.id][2]

\* C2: under every interleaving of concurrent checks of one identity, no
\* allowed timestamp leaves call_log before it is 60 seconds old, and no
\* trailing 60-second interval holds more than 30 allowed calls.
C2_NoLostNoOvercount ==
    /\ \A id \in Identities : \A t \in Range(allowed[id]) :
          t > clock - WINDOW_SECONDS =>
             CountClosed(call_log[id], t, t) >= CountClosed(allowed[id], t, t)
    /\ WindowBound

\* C3: every check that finds 30 or more timestamps in the pruned window
\* appends exactly one block event: after k <= 100 denials the block log
\* holds k entries, the last of them the event of the last denial.
C3_DenialAppendsBlockEvent ==
    /\ Len(denials) <= BLOCK_LOG_MAXLEN => Len(block_log) = Len(denials)
    /\ denials # <<>> =>
          /\ block_log # <<>>
          /\ block_log[Len(block_log)] = denials[Len(denials)]

\* C4: a check refused because the identity is at the limit is answered
\* with HTTP 429 and an explanation, raised as the HTTPException of the
\* denial and as no other error.
C4_DenialIs429 ==
    last.kind = "denied" =>
        /\ last.status = HTTP_429_TOO_MANY_REQUESTS
        /\ last.raised = "HTTPException"
        /\ last.detail # ""

LastN(seq, n) ==
    IF Len(seq) <= n THEN seq ELSE SubSeq(seq, Len(seq) - n + 1, Len(seq))

\* C5: the block log never holds more than 100 entries and always holds the
\* events of the most recent denials (up to 100), oldest first.
C5_BlockLogKeepsLast100 ==
    /\ Len(block_log) <= BLOCK_LOG_MAXLEN
    /\ block_log = LastN(denials, BLOCK_LOG_MAXLEN)

----------------------------------------------------------------------------
(* Properties of the routes, the upload validator and the extractor *)

AtLimitNow(id) ==
    CountHalfOpen(allowed[id], clock - WINDOW_SECONDS, clock) >= RATE_LIMIT

\* C6: no upload and no analysis runs its handler (write, sniff, size
\* check; extract, commit) unless the admission check admitted that very
\* request, and the request of an identity that has 30 allowed requests in
\* the last 60 seconds does not reach validation or ingestion.
C6_PipelineIsGated ==
    (http.route \in {"upload", "analyze"} /\ http.ran) =>
        /\ http.admitted
        /\ ~AtLimitNow(http.id)

\* The same for the routes that declare the rate limiter: their handler
\* runs only for an admitted request
GatedRoutesAreGated ==
    (http.route \in RateLimitedRoutes /\ http.ran) => http.admitted

\* The outcome the validator's contract gives an upload: by sniffed type
\* and size alone, with ceilings of 15, 15, 20 and 5 MB
ClaimedCeiling(mime) ==
    CASE mime = "image/png"       -> 15 * 1024 * 1024
      [] mime = "image/jpeg"      -> 15 * 1024 * 1024
      [] mime = "application/pdf" -> 20 * 1024 * 1024
      [] mime = "text/plain"      -> 5 * 1024 * 1024
ClaimedOutcome(mime, size) ==
    IF mime \notin {"image/png", "image/jpeg", "application/pdf", "text/plain"}
    THEN "INVALID_FILE_TYPE"
    ELSE IF size > ClaimedCeiling(mime) THEN "FILE_TOO_LARGE"
    ELSE ""

\* C7: the outcome reported to the caller of an upload is INVALID_FILE_TYPE,
\* FILE_TOO_LARGE or acceptance, as sniffed type and size decide.
C7_ReportedOutcome ==
    (http.route = "upload" /\ http.ran) =>
        LET claimed == ClaimedOutcome(http.mime, http.size)
        IN IF claimed = "" THEN http.status = 200 /\ http.error = ""
           ELSE http.status = 400 /\ http.error = claimed

\* C8: after an upload that was rejected for its sniffed type or its size,
\* the temporary file written under the declared name is not on disk.
C8_RejectionRemovesTemp ==
    (/\ http.route = "upload"
     /\ http.decision \in {"INVALID_FILE_TYPE", "FILE_TOO_LARGE"})
        => ~disk[http.name].exists

\* an upload named *.txt was written to disk, sniffed as a type that is
\* not allowed, and rejected
C8_Witness ==
    /\ http.route = "upload"
    /\ http.wrote
    /\ http.decision = "INVALID_FILE_TYPE"
    /\ LowerExt(http.name) = ".txt"
    /\ ~disk[http.name].exists

BranchOfSniffed(mime) ==
    CASE mime \in {"image/png", "image/jpeg"} -> "image"
      [] mime = "application/pdf" -> "pdf"
      [] mime = "text/plain" -> "text"
      [] OTHER -> "unsupported"

\* C9: for a document the validator accepted, extraction runs the branch
\* of the sniffed type and never ends in the unsupported-kind outcome.
C9_BranchBySniffedType ==
    (/\ http.route = "analyze"
     /\ http.extract.branch # "none"
     /\ http.extract.validated)
        => /\ http.extract.branch = BranchOfSniffed(http.extract.sniffed)
           /\ http.extract.branch # "unsupported"

\* The variant of an extraction error as its caller can tell it: by status
ErrorVariant(ex) ==
    IF ex.status = 400 THEN "UnsupportedKind"
    ELSE IF ex.status = 500 THEN "EngineFailure"
    ELSE "none"

\* C10: the extractor answers a document of an unsupported kind with the
\* UnsupportedKind variant, not with the variant of an engine failure.
C10_UnsupportedKindIsDistinct ==
    (/\ http.route = "analyze"
     /\ http.extract.branch = "unsupported")
        => ErrorVariant(http.extract) = "UnsupportedKind"

----------------------------------------------------------------------------
(* The analysis, statement by statement (SpecAnalyze)                      *)

RunEnded == run.pc = "idle" /\ run.outcome # "none"
Answered == RunEnded /\ http.route = "analyze"

\* C11: an unreadable page, also a later one of a PDF whose earlier pages
\* were read, fails the extraction; when extraction fails in analyze_claim
\* the call ends with an error, returns no text and commits nothing: the
\* claim's row is what it was before.
C11_ExtractionFailureCommitsNothing ==
    /\ (run.pc \notin {"idle", "extract"})
          => AllPagesOk(disk[run.path].pages)
    /\ (run.pc = "extract")
          => run.commits = 0 /\ claims[run.cid] = run.before
    /\ (RunEnded /\ run.outcome = "extract_failed")
          => /\ run.commits = 0
             /\ run.text = <<>>
             /\ claims[run.cid] = run.before
    /\ (Answered /\ run.outcome = "extract_failed")
          => /\ http.status = 500
             /\ http.commits = 0
             /\ http.extract.text = <<>>

\* the analysis of a two-page PDF whose first page was readable and whose
\* second was not has ended
C11_Witness ==
    /\ Answered
    /\ run.outcome = "extract_failed"
    /\ run.seen.branch = "pdf"
    /\ disk[run.path].mime = "application/pdf"
    /\ Len(disk[run.path].pages) = 2
    /\ disk[run.path].pages[1].ok
    /\ disk[run.path].pages[1].lines # <<>>
    /\ ~disk[run.path].pages[2].ok

FoundNothing(text) ==
    /\ ~parse_claim_text(text).claim_type.found
    /\ ~parse_claim_text(text).amount.found

\* C12: when extraction succeeds and the parser finds neither claim_type
\* nor amount, analyze_claim commits exactly once: afterwards ocr_text is
\* the extracted text, claim_type and amount are what they were, and the
\* second commit is never attempted.
C12_NothingFoundCommitsOnce ==
    /\ (run.pc = "commit2") => ~FoundNothing(run.text)
    /\ (RunEnded /\ run.outcome = "ok" /\ FoundNothing(run.text))
          => /\ run.commits = 1
             /\ claims[run.cid].ocr_text = Text(run.text)
             /\ claims[run.cid].claim_type = run.before.claim_type
             /\ claims[run.cid].amount = run.before.amount
    /\ (Answered /\ run.outcome = "ok" /\ FoundNothing(run.text))
          => http.status = 200 /\ http.commits = 1

\* an analysis ended well on a text that has both labels and nothing the
\* patterns accept after them, and the row's text changed
C12_Witness ==
    /\ Answered
    /\ run.outcome = "ok"
    /\ FoundNothing(run.text)
    /\ \E i \in 1..Len(run.text) : run.text[i].label = "claim_type"
    /\ \E i \in 1..Len(run.text) : run.text[i].label = "amount"
    /\ run.before.ocr_text # claims[run.cid].ocr_text

\* C13: in every run of analyze_claim in which extraction succeeds, the
\* commit of the raw text is made before the field parser is invoked: once
\* the parser has been called, this run has committed the text it read.
C13_RawTextCommittedBeforeParse ==
    (run.pc # "idle" /\ run.parse_called)
        => /\ run.commits >= 1
           /\ claims[run.cid].ocr_text = Text(run.text)

FieldsOf(row) == <<row.claim_type, row.amount>>

\* C14: a step that changes the committed claim_type or amount of a claim
\* is the second commit of a run whose first commit has already written
\* that run's extracted text to ocr_text, and the text stays; a second
\* commit that fails leaves the row as the first commit made it, with that
\* text and the fields it had.
C14_FieldsOnlyAfterRawText ==
    [][/\ \A c \in ClaimIds :
            (/\ claims[c].exists /\ claims'[c].exists
             /\ FieldsOf(claims'[c]) # FieldsOf(claims[c]))
                => /\ run.pc = "commit2" /\ run.cid = c
                   /\ run.commits = 1
                   /\ claims[c].ocr_text = Text(run.text)
                   /\ claims'[c].ocr_text = Text(run.text)
                   /\ claims'[c] = ApplyParsed(claims[c],
                                               parse_claim_text(run.text))
       /\ (run.pc = "commit2" /\ run'.outcome = "commit2_failed")
            => /\ claims' = claims
               /\ claims[run.cid].ocr_text = Text(run.text)
               /\ FieldsOf(claims[run.cid]) = FieldsOf(run.before)]_vars

\* a run has ended whose second commit changed a field of a row whose text
\* before the run was not the text the run read
C14_Witness ==
    /\ RunEnded
    /\ run.outcome = "ok"
    /\ run.commits = 2
    /\ FieldsOf(claims[run.cid]) # FieldsOf(run.before)
    /\ run.before.ocr_text # Text(run.text)
    /\ claims[run.cid].ocr_text = Text(run.text)

\* C15: a run of analyze_claim that follows, with no request in between, a
\* successful run on the same claim and the same document leaves ocr_text,
\* claim_type and amount as the first run left them.
C15_SecondRunChangesNothing ==
    (run.repeat /\ run.cid \in ClaimIds)
        => /\ claims[run.cid].ocr_text = run.before.ocr_text
           /\ claims[run.cid].claim_type = run.before.claim_type
           /\ claims[run.cid].amount = run.before.amount

\* the second of two successful runs in a row has ended after its two
\* commits, on a claim whose fields the first run had parsed
C15_Witness ==
    /\ Answered
    /\ run.repeat
    /\ run.outcome = "ok"
    /\ run.commits = 2
    /\ run.before.ocr_text = Text(run.text)
    /\ run.before.claim_type # "Initial"

----------------------------------------------------------------------------
\* C16: an upload whose sniffed type is allowed and whose size is within
\* that type's ceiling succeeds: the caller gets a success response, the
\* file is stored and a claim has the stored file as its document_path.
C16_AcceptedUploadCreatesClaim ==
    (/\ http.route = "upload"
     /\ http.decision = "accepted")
        => /\ http.status = 200
           /\ disk[http.name].exists
           /\ \E c \in ClaimIds : /\ claims[c].exists
                                   /\ claims[c].document_path = http.name

----------------------------------------------------------------------------
\* the allowed timestamps of the identity of the last check that lie in
\* [now-60, now], and those that lie in (now-60, now], now being its time
KeptClosed ==
    SelectSeq(allowed[last.id],
              LAMBDA t : last.now - WINDOW_SECONDS <= t /\ t <= last.now)
KeptHalfOpen ==
    SelectSeq(allowed[last.id],
              LAMBDA t : last.now - WINDOW_SECONDS < t /\ t <= last.now)

\* the last check came exactly 60 seconds after the first of 30 allowed
\* requests, the only ones before it
SixtyAfterFirstOfThirty ==
    /\ last.kind # "none"
    /\ Len(PriorAllowed) = RATE_LIMIT
    /\ PriorAllowed[1] = last.now - WINDOW_SECONDS

\* C17 (as stated): pruning keeps every timestamp t with now-60 <= t <= now,
\* so a request that comes exactly 60 seconds after the first of 30 allowed
\* requests is denied.
C17_Original ==
    /\ last.kind # "none" => call_log[last.id] = KeptClosed
    /\ SixtyAfterFirstOfThirty => last.kind = "denied"

\* C17 (amended): pruning keeps every timestamp t with now-60 < t <= now; a
\* timestamp exactly 60 seconds old is dropped and no longer counts, so a
\* request that comes exactly 60 seconds after the first of 30 allowed
\* requests is allowed.
C17_PruneKeepsHalfOpenWindow ==
    /\ last.kind # "none" => call_log[last.id] = KeptHalfOpen
    /\ SixtyAfterFirstOfThirty => last.kind = "allowed"

\* a 31st request came exactly 60 seconds after 30 allowed requests and
\* found the log pruned of a timestamp that was exactly 60 seconds old
C17_Witness ==
    /\ SixtyAfterFirstOfThirty
    /\ last.kind = "allowed"
    /\ Len(allowed[last.id]) = RATE_LIMIT + 1
    /\ Len(call_log[last.id]) < Len(allowed[last.id])
    /\ last.now - WINDOW_SECONDS \notin Range(call_log[last.id])

----------------------------------------------------------------------------
\* the names of the fields the parser finds in a text
FoundFields(text) ==
    (IF parse_claim_text(text).claim_type.found THEN {"claim_type"} ELSE {})
    \cup (IF parse_claim_text(text).amount.found THEN {"amount"} ELSE {})

\* C18: a run of analyze_claim that ends well has overwritten exactly the
\* fields the parser found, an amount of 0.00 included, with the parsed
\* values, kept the others, recorded the found fields as updated, and made
\* its second commit if and only if a field was found.
C18_ExactlyFoundFieldsOverwritten ==
    (RunEnded /\ run.outcome = "ok")
        => LET p   == parse_claim_text(run.text)
               row == claims[run.cid]
           IN /\ row.claim_type = IF "claim_type" \in FoundFields(run.text)
                                  THEN p.claim_type.value
                                  ELSE run.before.claim_type
              /\ row.amount = IF "amount" \in FoundFields(run.text)
                              THEN p.amount.value
                              ELSE run.before.amount
              /\ Range(run.updated) = FoundFields(run.text)
              /\ Len(run.updated) = Cardinality(FoundFields(run.text))
              /\ (run.commits = 2) <=> (FoundFields(run.text) # {})
              /\ (run.commits = 1) <=> (FoundFields(run.text) = {})

\* a run ended well on a text in which only an amount of 0.00 was found:
\* the amount, which was not 0 before, is 0 and the claim type is kept
C18_Witness ==
    /\ RunEnded
    /\ run.outcome = "ok"
    /\ FoundFields(run.text) = {"amount"}
    /\ parse_claim_text(run.text).amount.value = 0
    /\ run.before.amount # 0
    /\ claims[run.cid].amount = 0
    /\ claims[run.cid].claim_type = run.before.claim_type
    /\ run.commits = 2

----------------------------------------------------------------------------
\* C19: no step changes or removes the stored document of an existing
\* claim: whatever is uploaded, under whatever filename and with whatever
\* outcome, the file of every claim that has one on disk is there
\* afterwards with the content it had.
C19_UploadKeepsClaimDocuments ==
    [][\A c \in ClaimIds :
         (/\ claims[c].exists
          /\ claims[c].document_path \in Filenames
          /\ disk[claims[c].document_path].exists)
            => disk'[claims[c].document_path]
                  = disk[claims[c].document_path]]_vars

====
